---------------------------- MODULE Spec2Model ----------------------------
(***************************************************************************)
(* Model of src/solution.py: calculate_reimbursement(days, miles,          *)
(* receipts).                                                              *)
(*                                                                         *)
(* Arithmetic.  The source computes in binary floating point; the model    *)
(* computes the same expressions exactly, in fixed point:                  *)
(*   - receipts is held in quarter-dollars (Dollars(n) = 4*n), so that     *)
(*     non-integral receipt totals are covered;                            *)
(*   - base_amount is held in cents: 61 -> 6100, 0.59 -> 59 per mile,      *)
(*     0.44 per dollar -> 11 per quarter-dollar, 5 -> 500;                 *)
(*   - every fraction is held in thousandths: 0.08 -> 80, 0.015 -> 15,     *)
(*     0.35 -> 350;                                                        *)
(*   - adjustments, final_amount and result are therefore held in          *)
(*     thousandths of a cent (cents * 1000).                               *)
(* Rounding of the last binary digits is not modelled.                     *)
(* The quotients miles / days and receipts / days are only ever compared   *)
(* with integer thresholds and only when days > 0, so q >= t is modelled   *)
(* as miles >= t * days.                                                   *)
(***************************************************************************)
EXTENDS Integers, Sequences, FiniteSets

VARIABLES days, miles, receipts, base_amount, adjustments, applied, pc, result

vars == <<days, miles, receipts, base_amount, adjustments, applied, pc, result>>

(* ------------------------------ bounds -------------------------------- *)

MaxDays == 9

Near == 1

(* ------------------------------ units --------------------------------- *)

Dollars(n) == 4 * n

Amount(cents) == cents * 1000

(* ------------------------- the base formula --------------------------- *)

BaseAmount(d, m, r) == 6100 * d + 59 * m + 11 * r + 500

(* --------------------------- rule predicates -------------------------- *)

ShortTripRate(d) ==
    IF d = 1 THEN 80 ELSE IF d = 2 THEN 40 ELSE 0

MidLengthRateBug(d) ==
    IF d = 5 THEN 20 ELSE IF d = 6 THEN 40 ELSE 0

MidLengthRate(d) ==
    IF d = 5 THEN 40 ELSE IF d = 6 THEN 20 ELSE 0

EfficiencyGuardBug(d) == d >= 0

EfficiencyGuard(d) == d > 0

EfficiencyBandBug(d, m) ==
    IF 180 * d <= m /\ m < 220 * d THEN 40
    ELSE IF 150 * d <= m /\ m < 180 * d THEN 15
    ELSE IF 220 * d < m /\ m <= 280 * d THEN 15
    ELSE 0

EfficiencyBand(d, m) ==
    IF 180 * d <= m /\ m <= 220 * d THEN 40
    ELSE IF 150 * d <= m /\ m < 180 * d THEN 15
    ELSE IF 220 * d < m /\ m <= 280 * d THEN 15
    ELSE 0

EfficiencyRate(d, m) ==
    IF EfficiencyGuard(d) THEN EfficiencyBand(d, m) ELSE 0

SweetSpotRate(r) ==
    IF Dollars(600) <= r /\ r <= Dollars(800) THEN 30 ELSE 0

LowReceiptRate(d, r) ==
    IF d > 1 /\ r < Dollars(50) THEN -20 ELSE 0

InteractionGuard(d) == d > 0

ComboRateBug(d, m, r) ==
    IF d = 5 /\ m >= 180 * d /\ r < Dollars(1000) * d THEN 50 ELSE 0

ComboRate(d, m, r) ==
    IF d = 5 /\ m >= 180 * d /\ r < Dollars(100) * d THEN 50 ELSE 0

LongTripRate(d, r) ==
    IF d >= 8 /\ r > Dollars(150) * d THEN -50 ELSE 0

InteractionRate(d, m, r) ==
    IF InteractionGuard(d) THEN ComboRate(d, m, r) + LongTripRate(d, r) ELSE 0

(* ------------- the rules, as steps on the adjustments total ----------- *)

ShortTripPremiumBug(adj, base, d) ==
    IF d = 1 THEN adj + base * 80 ELSE IF d = 2 THEN adj + base * 80 ELSE adj

ShortTripPremium(adj, base, d) == adj + base * ShortTripRate(d)

MidLengthBonus(adj, base, d) == adj + base * MidLengthRate(d)

EfficiencyBonus(adj, base, d, m) == adj + base * EfficiencyRate(d, m)

TieredMileageBug(adj, m) ==
    IF m >= 100 THEN adj - (m - 99) * 59 * 80 ELSE adj

TieredMileage(adj, m) ==
    IF m > 100 THEN adj - (m - 100) * 59 * 80 ELSE adj

ReceiptSweetSpotBug(adj, base, r) ==
    adj + (base + adj \div 1000) * SweetSpotRate(r)

ReceiptSweetSpot(adj, base, r) == adj + base * SweetSpotRate(r)

LowReceiptPenaltyBug(adj, base, d, r) ==
    IF d > 1 /\ r < Dollars(50) THEN adj - base * 2000 ELSE adj

LowReceiptPenalty(adj, base, d, r) == adj + base * LowReceiptRate(d, r)

HighReceiptCapBug(adj, r) ==
    IF r > Dollars(1500) THEN adj - (r - Dollars(1500)) * 11 * 300 ELSE adj

HighReceiptCap(adj, r) ==
    IF r > Dollars(1500) THEN adj - (r - Dollars(1500)) * 11 * 350 ELSE adj

InteractionBonuses(adj, base, d, m, r) == adj + base * InteractionRate(d, m, r)

Rules == {"short", "mid", "eff", "tier", "sweet", "low", "high", "combo"}

CodeOrder == <<"short", "mid", "eff", "tier", "sweet", "low", "high", "combo">>

RuleStep(k, adj, base, d, m, r) ==
    CASE k = "short" -> ShortTripPremium(adj, base, d)
      [] k = "mid"   -> MidLengthBonus(adj, base, d)
      [] k = "eff"   -> EfficiencyBonus(adj, base, d, m)
      [] k = "tier"  -> TieredMileage(adj, m)
      [] k = "sweet" -> ReceiptSweetSpot(adj, base, r)
      [] k = "low"   -> LowReceiptPenalty(adj, base, d, r)
      [] k = "high"  -> HighReceiptCap(adj, r)
      [] k = "combo" -> InteractionBonuses(adj, base, d, m, r)

\* miles / days and receipts / days raise ZeroDivisionError when days = 0
RuleRaises(k, d) ==
    \/ k = "eff" /\ EfficiencyGuard(d) /\ d = 0
    \/ k = "combo" /\ InteractionGuard(d) /\ d = 0

ClampBug(final_amount) == final_amount

Clamp(final_amount) == IF final_amount > 0 THEN final_amount ELSE 0

(* --------------------- the function as an operator -------------------- *)

RECURSIVE ApplyRules(_, _, _, _, _, _)
ApplyRules(order, adj, base, d, m, r) ==
    IF order = <<>> THEN adj
    ELSE ApplyRules(Tail(order), RuleStep(Head(order), adj, base, d, m, r),
                    base, d, m, r)

CalculateReimbursement(d, m, r) ==
    LET base == BaseAmount(d, m, r)
    IN  Clamp(Amount(base) + ApplyRules(CodeOrder, 0, base, d, m, r))

(* ------------------------------ inputs -------------------------------- *)

Around(t) == (t - Near) .. (t + Near)

DaysValues == -1 .. MaxDays

MilesValues(d) ==
    {-200, 0, 50, 200, 1000} \cup Around(100)
      \cup (IF d > 0
            THEN UNION {Around(k * d) : k \in {150, 180, 220, 280}}
            ELSE {})

ReceiptsValues(d) ==
    {Dollars(-1000), 0, Dollars(100), Dollars(400), Dollars(700), Dollars(2000)}
      \cup Around(Dollars(50)) \cup Around(Dollars(600))
      \cup Around(Dollars(800)) \cup Around(Dollars(1500))
      \cup (IF d > 0
            THEN Around(Dollars(100) * d) \cup Around(Dollars(150) * d)
            ELSE {})

(* --------------------------- the state machine ------------------------ *)

Init ==
    /\ days \in DaysValues
    /\ miles \in MilesValues(days)
    /\ receipts \in ReceiptsValues(days)
    /\ base_amount = 0
    /\ adjustments = 0
    /\ applied = {}
    /\ pc = "call"
    /\ result = 0

Enter ==
    /\ pc = "call"
    /\ base_amount' = BaseAmount(days, miles, receipts)
    /\ adjustments' = 0
    /\ pc' = "rules"
    /\ UNCHANGED <<days, miles, receipts, applied, result>>

ApplyRule(k) ==
    /\ pc = "rules"
    /\ k \notin applied
    /\ IF RuleRaises(k, days)
       THEN /\ pc' = "raised"
            /\ UNCHANGED <<adjustments, applied>>
       ELSE /\ adjustments' =
                 RuleStep(k, adjustments, base_amount, days, miles, receipts)
            /\ applied' = applied \cup {k}
            /\ pc' = pc
    /\ UNCHANGED <<days, miles, receipts, base_amount, result>>

Position(k) == CHOOSE i \in 1 .. Len(CodeOrder) : CodeOrder[i] = k

Before(k) == {CodeOrder[i] : i \in 1 .. (Position(k) - 1)}

ApplyNext == \E k \in Rules : applied = Before(k) /\ ApplyRule(k)

Finalize ==
    /\ pc = "rules"
    /\ applied = Rules
    /\ result' = Clamp(Amount(base_amount) + adjustments)
    /\ pc' = "done"
    /\ UNCHANGED <<days, miles, receipts, base_amount, adjustments, applied>>

Next == Enter \/ ApplyNext \/ Finalize

Spec == Init /\ [][Next]_vars

(* ------- the same rules, applied in an arbitrary order (for C3) -------- *)

ApplyAny == \E k \in Rules : ApplyRule(k)

NextPerm == Enter \/ ApplyAny \/ Finalize

SpecPerm == Init /\ [][NextPerm]_vars

(* ------------------------------ properties ---------------------------- *)

FinalAmount == Amount(base_amount) + adjustments

\* The tiered-mileage and high-receipt terms, written out from the rules' text.
TierTerm == IF miles > 100 THEN (miles - 100) * 4720 ELSE 0

CapTerm == IF receipts > Dollars(1500) THEN (receipts - Dollars(1500)) * 3850 ELSE 0

Applies(k) == k \notin applied /\ applied' = applied \cup {k}

\* C1: no call raises, and every returned value is max(base_amount +
\* adjustments, 0): it is >= 0, and 0 whenever the sum is negative, for
\* zero and negative inputs too.
C1_NonNegative ==
    /\ pc # "raised"
    /\ pc = "done" =>
         /\ result >= 0
         /\ (FinalAmount < 0 => result = 0)
         /\ (FinalAmount >= 0 => result = FinalAmount)

C1_Witness ==
    pc = "done" /\ days <= 0 /\ miles < 0 /\ FinalAmount < 0 /\ result = 0

\* C2: with days = 0 no division is attempted, the efficiency and the
\* interaction groups add nothing, the other rules are still evaluated, and
\* compute(0, 100, 100) returns the base amount 108.
C2_ZeroDayGuard ==
    days = 0 =>
      /\ pc # "raised"
      /\ ("eff" \in applied /\ "tier" \notin applied) => adjustments = 0
      /\ pc = "done" =>
           /\ adjustments = base_amount * (IF Dollars(600) <= receipts
                                              /\ receipts <= Dollars(800)
                                           THEN 30 ELSE 0)
                            - TierTerm - CapTerm
           /\ (miles = 100 /\ receipts = Dollars(100)) =>
                base_amount = 10800 /\ result = Amount(10800)

C2_Witness ==
    /\ pc = "done" /\ days = 0 /\ miles = 100 /\ receipts = Dollars(100)
    /\ result = Amount(10800)

\* The sum of the deltas of the rules in S, each computed on its own from
\* the original base_amount.
RECURSIVE SumOfDeltas(_)
SumOfDeltas(S) ==
    IF S = {} THEN 0
    ELSE LET k == CHOOSE x \in S : TRUE
         IN  RuleStep(k, 0, base_amount, days, miles, receipts)
               + SumOfDeltas(S \ {k})

\* C3: every delta is computed against the original base_amount, never the
\* running total: in whatever order the rules are applied, adjustments is the
\* sum of the deltas of the rules applied so far, and once all are applied
\* adjustments and the result are those of the code's fixed order.
C3_OrderIrrelevant ==
    /\ pc # "call" => adjustments = SumOfDeltas(applied)
    /\ applied = Rules =>
         adjustments =
           ApplyRules(CodeOrder, 0, base_amount, days, miles, receipts)
    /\ pc = "done" => result = CalculateReimbursement(days, miles, receipts)

C3_Witness ==
    /\ pc = "rules" /\ applied = {"combo", "sweet", "eff"}
    /\ days = 1 /\ miles = 200 /\ receipts = Dollars(700)
    /\ adjustments = base_amount * 70

\* C4 (as stated): for days = 5 with 180 <= miles/days <= 220 and
\* receipts/days < 100 the percentage adjustments total exactly +13% of
\* base_amount.
C4_Original ==
    (/\ pc = "done" /\ days = 5
     /\ 180 * days <= miles /\ miles <= 220 * days
     /\ receipts < Dollars(100) * days)
    => adjustments + TierTerm + CapTerm = base_amount * 130

\* C4 (amended): compute(5, 1000, 400) gets the 5-day, efficiency and combo
\* bonuses together, each on the original base_amount; for days = 5 with
\* 180 <= miles/days <= 220 and receipts/days < 100 the percentage
\* adjustments total +13% of base_amount when receipts >= 50, and +11% when
\* receipts < 50, where the low-receipt penalty applies as well.
C4_SweetSpotCombo ==
    (/\ pc = "done" /\ days = 5
     /\ 180 * days <= miles /\ miles <= 220 * days
     /\ receipts < Dollars(100) * days)
    => /\ adjustments + TierTerm + CapTerm =
            base_amount * (IF receipts >= Dollars(50) THEN 130 ELSE 110)
       /\ (miles = 1000 /\ receipts = Dollars(400)) =>
            /\ base_amount = 107600
            /\ adjustments = 107600 * (40 + 40 + 50) - 900 * 4720
            /\ result = Amount(117340)

C4_Witness ==
    /\ pc = "done" /\ days = 5 /\ miles = 1000 /\ receipts = Dollars(400)
    /\ result = Amount(117340)

\* C5: the step of the high-receipt cap subtracts (receipts - 1500) * 0.44 *
\* 0.35 when receipts > 1500 and nothing otherwise; compute(1, 0, 2000) has
\* base 946, the 8% premium and the -77 cap only, and returns 944.68.
C5_HighReceiptCap ==
    /\ [][Applies("high") => adjustments' = adjustments - CapTerm]_vars
    /\ []((pc = "done" /\ days = 1 /\ miles = 0 /\ receipts = Dollars(2000))
          => /\ base_amount = 94600
             /\ adjustments = 94600 * 80 - Amount(7700)
             /\ result = Amount(94468))

C5_Witness ==
    /\ pc = "done" /\ days = 1 /\ miles = 0 /\ receipts = Dollars(2000)
    /\ "high" \in applied /\ result = Amount(94468)

\* What the call returns without the tiered-mileage rule.
WithoutTiering ==
    Clamp(Amount(base_amount)
          + ApplyRules(<<"short", "mid", "eff", "sweet", "low", "high", "combo">>,
                       0, base_amount, days, miles, receipts))

\* C6: the tiered-mileage step subtracts (miles - 100) * 0.59 * 0.08 when
\* miles > 100 and nothing when miles <= 100; compute(3, 50, 0) carries no
\* mileage penalty and compute(3, 200, 0) is 4.72 below the same call
\* without the rule.
C6_TieredMileage ==
    /\ [][Applies("tier") => adjustments' = adjustments - TierTerm]_vars
    /\ [][(Applies("tier") /\ miles <= 100) => adjustments' = adjustments]_vars
    /\ []((pc = "done" /\ days = 3 /\ miles = 50 /\ receipts = 0)
          => result = WithoutTiering)
    /\ []((pc = "done" /\ days = 3 /\ miles = 200 /\ receipts = 0)
          => result = WithoutTiering - Amount(472))

C6_Witness ==
    /\ pc = "done" /\ days = 3 /\ miles = 200 /\ receipts = 0
    /\ result = Amount(29516) /\ WithoutTiering = Amount(29988)

\* C7: the short-trip step adds 8% of base_amount when days = 1, 4% when
\* days = 2 and nothing for any other day count; compute(1, 0, 0) is
\* 66 * 1.08 = 71.28 with no other rule contributing.
C7_ShortTripPremium ==
    /\ [][Applies("short") =>
            adjustments' = adjustments
               + (IF days = 1 THEN base_amount * 80
                  ELSE IF days = 2 THEN base_amount * 40 ELSE 0)]_vars
    /\ []((pc = "done" /\ days = 1 /\ miles = 0 /\ receipts = 0)
          => /\ base_amount = 6600
             /\ adjustments = 6600 * 80
             /\ result = Amount(7128))

C7_Witness ==
    /\ pc = "done" /\ days = 1 /\ miles = 0 /\ receipts = 0
    /\ result = Amount(7128)

\* C8: for days > 0 the efficiency step adds 4% of base_amount when
\* 180 <= miles/days <= 220, 1.5% when 150 <= miles/days < 180 or
\* 220 < miles/days <= 280, and nothing below 150 or above 280; the bands
\* exclude one another, so it adds 0, 1.5% or 4% of base_amount.
C8_EfficiencyBands ==
    [][(Applies("eff") /\ days > 0) =>
        LET delta == adjustments' - adjustments
            top == 180 * days <= miles /\ miles <= 220 * days
            low == 150 * days <= miles /\ miles < 180 * days
            high == 220 * days < miles /\ miles <= 280 * days
        IN  /\ ~(top /\ low) /\ ~(top /\ high) /\ ~(low /\ high)
            /\ top => delta = base_amount * 40
            /\ low => delta = base_amount * 15
            /\ high => delta = base_amount * 15
            /\ (miles < 150 * days \/ miles > 280 * days) => delta = 0
            /\ delta \in {0, base_amount * 15, base_amount * 40}]_vars

C8_Witness ==
    /\ pc = "rules" /\ applied = {"short", "mid", "eff"}
    /\ days = 3 /\ miles = 220 * days
    /\ adjustments = base_amount * 40

\* C9: for days >= 1, miles >= 0 and receipts >= 0 the sum base_amount +
\* adjustments is strictly positive once every rule is applied, so the call
\* returns that sum itself and never 0.
C9_ClampInactive ==
    (days >= 1 /\ miles >= 0 /\ receipts >= 0 /\ applied = Rules) =>
      /\ FinalAmount > 0
      /\ pc = "done" => (result = FinalAmount /\ result # 0)

C9_Witness ==
    /\ pc = "done" /\ days >= 8 /\ miles > 280 * days
    /\ receipts = Dollars(2000)
    /\ adjustments = - base_amount * 50 - TierTerm - CapTerm
    /\ result = FinalAmount /\ result > 0

\* The percentage rates applied to base_amount in the current call, in
\* thousandths.
RateSum ==
    ShortTripRate(days) + MidLengthRate(days) + EfficiencyRate(days, miles)
      + SweetSpotRate(receipts) + LowReceiptRate(days, receipts)
      + InteractionRate(days, miles, receipts)

\* C10: the rates applied to base_amount sum to between -5% and +15%; the
\* low-receipt and long-trip penalties never apply together, the combo bonus
\* never coincides with the receipt sweet spot or the long-trip penalty, and
\* +15% is reached only with days = 1.
C10_RateBounds ==
    LET low == days > 1 /\ receipts < Dollars(50)
        long == days >= 8 /\ receipts > Dollars(150) * days
        combo == days = 5 /\ miles >= 180 * days /\ receipts < Dollars(100) * days
        sweet == Dollars(600) <= receipts /\ receipts <= Dollars(800)
    IN  /\ pc = "done" => adjustments = base_amount * RateSum - TierTerm - CapTerm
        /\ low <=> LowReceiptRate(days, receipts) = -20
        /\ long <=> (InteractionGuard(days) /\ LongTripRate(days, receipts) = -50)
        /\ combo <=> (InteractionGuard(days) /\ ComboRate(days, miles, receipts) = 50)
        /\ sweet <=> SweetSpotRate(receipts) = 30
        /\ -50 <= RateSum /\ RateSum <= 150
        /\ ~(low /\ long)
        /\ ~(combo /\ sweet)
        /\ ~(combo /\ long)
        /\ RateSum = 150 => days = 1

C10_Witness ==
    /\ pc = "done" /\ days = 1 /\ miles = 200 /\ receipts = Dollars(700)
    /\ RateSum = 150
    /\ adjustments = base_amount * 150 - 100 * 4720

=============================================================================
